---- MODULE Spec2Model ----
(***************************************************************************)
(* SVG namespace normalizer (src/hummm.js).                                *)
(*                                                                         *)
(* A document text is a sequence of lexemes (strings): the pieces that the *)
(* literal parts of the source's patterns are made of ("xmlns:", "ns1",    *)
(* ":", "href", "=", quotes, "#", "url(", ")", ...).  A regular expression *)
(* of the source is a value (RegExp below) written element by element from *)
(* the pattern, and one matcher gives all of them their meaning: leftmost  *)
(* match, alternatives in order, greedy and lazy quantifiers with          *)
(* backtracking.  A literal of a pattern matches whole lexemes and a       *)
(* character class is a set of lexemes.                                    *)
(***************************************************************************)
EXTENDS Naturals, Sequences, FiniteSets, TLC

\* ------------------------------------------------------------------------
\* Bounds of the model
\* ------------------------------------------------------------------------

\* Number of fragments an input document is assembled from.
MaxFrags == 3

\* ------------------------------------------------------------------------
\* Lexemes and character classes
\* ------------------------------------------------------------------------

XLinkUri == "http://www.w3.org/1999/xlink"

XLinkUriUpper == "HTTP://WWW.W3.ORG/1999/XLINK"

\* The SVG namespace: a URI other than the XLink one.
SvgUri == "http://www.w3.org/2000/svg"

DQ == "\""

SQ == "'"

\* The digit groups that follow "ns" in the inputs of the model.
DigitGroups == {"1", "2"}

\* The i flag: the lower-case form of a lexeme.
Lower(tok) == IF tok = XLinkUriUpper THEN XLinkUri ELSE tok

\* ns\d+ under the i flag
IsNs(tok) == \E d \in DigitGroups : Lower(tok) = "ns" \o d

\* the group (\d+) of a lexeme matching ns\d+
NsDigits(tok) == CHOOSE d \in DigitGroups : Lower(tok) = "ns" \o d

\* The lexemes of a character class.
InClass(cls, tok) ==
    CASE cls = "\\s" -> tok \in {" ", "\n"}
      [] cls = "[\"']" -> tok \in {DQ, SQ}
      [] cls = "[^\"']" -> tok \notin {DQ, SQ}
      [] cls = "[^\"]" -> tok # DQ
      [] cls = "[^']" -> tok # SQ
      [] cls = "[^;]" -> tok # ";base64,"
      [] cls = "[^>]" -> tok # ">"
      [] cls = "[^)\"']" -> tok \notin {")", DQ, SQ}
      [] cls = "[\\s\\S]" -> TRUE
      [] cls = "ns\\d+" -> IsNs(tok)
      \* the lexemes made of [a-zA-Z0-9-] that start with a letter
      [] cls = "[a-zA-Z0-9-]" ->
            tok \in {"href", "x", "fill", "a", "b", "g", "png", "AAAA",
                     "ns1", "ns2", "xlink", "xmlns"}
      \* the lexemes that start with '<' and hold no '>'
      [] cls = "<" -> tok \in {"<", "<svg"}

RECURSIVE Flatten(_)
Flatten(ss) == IF ss = <<>> THEN <<>> ELSE Head(ss) \o Flatten(Tail(ss))

\* ------------------------------------------------------------------------
\* Regular expressions
\* ------------------------------------------------------------------------

\* An element of a pattern: a literal lexeme or a class, taken min times or
\* more (many), as few as possible when lazy.
Lit(tok) ==
    [lit |-> TRUE, of |-> tok, min |-> 1, many |-> FALSE, lazy |-> FALSE]

OptLit(tok) ==
    [lit |-> TRUE, of |-> tok, min |-> 0, many |-> FALSE, lazy |-> FALSE]

One(cls) ==
    [lit |-> FALSE, of |-> cls, min |-> 1, many |-> FALSE, lazy |-> FALSE]

Opt(cls) ==
    [lit |-> FALSE, of |-> cls, min |-> 0, many |-> FALSE, lazy |-> FALSE]

Star(cls) ==
    [lit |-> FALSE, of |-> cls, min |-> 0, many |-> TRUE, lazy |-> FALSE]

Plus(cls) ==
    [lit |-> FALSE, of |-> cls, min |-> 1, many |-> TRUE, lazy |-> FALSE]

LazyStar(cls) ==
    [lit |-> FALSE, of |-> cls, min |-> 0, many |-> TRUE, lazy |-> TRUE]

TwoOrMore(cls) ==
    [lit |-> FALSE, of |-> cls, min |-> 2, many |-> TRUE, lazy |-> FALSE]

\* A regular expression: its alternatives in order (each a sequence of
\* elements) and its flags.
RegExp(alts, flags) ==
    [alts |-> alts, i |-> "i" \in flags, g |-> "g" \in flags]

Accepts(e, ci, tok) ==
    IF e.lit
    THEN IF ci THEN Lower(tok) = Lower(e.of) ELSE tok = e.of
    ELSE InClass(e.of, tok)

\* How many lexemes from index i on element e can take at most.
RECURSIVE RunLen(_, _, _, _, _)
RunLen(e, ci, t, i, n) ==
    IF /\ i + n <= Len(t)
       /\ Accepts(e, ci, t[i + n])
       /\ (e.many \/ n = 0)
    THEN RunLen(e, ci, t, i, n + 1)
    ELSE n

NoMatch == [ok |-> FALSE, ends |-> <<>>]

\* Elements k.. of pat matched from index i on: ends[j] is the index after
\* the lexemes taken by element k+j-1.  TakeLen tries element k with n
\* lexemes, then with fewer (greedy) or more (lazy): backtracking.
RECURSIVE MatchFrom(_, _, _, _, _)
RECURSIVE TakeLen(_, _, _, _, _, _, _)
MatchFrom(pat, ci, t, k, i) ==
    IF k > Len(pat) THEN [ok |-> TRUE, ends |-> <<>>]
    ELSE LET hi == RunLen(pat[k], ci, t, i, 0)
         IN  IF hi < pat[k].min THEN NoMatch
             ELSE TakeLen(pat, ci, t, k, i,
                          IF pat[k].lazy THEN pat[k].min ELSE hi, hi)

TakeLen(pat, ci, t, k, i, n, hi) ==
    LET rest == MatchFrom(pat, ci, t, k + 1, i + n)
    IN  IF rest.ok THEN [ok |-> TRUE, ends |-> <<i + n>> \o rest.ends]
        ELSE IF pat[k].lazy /\ n < hi
             THEN TakeLen(pat, ci, t, k, i, n + 1, hi)
             ELSE IF ~pat[k].lazy /\ n > pat[k].min
                  THEN TakeLen(pat, ci, t, k, i, n - 1, hi)
                  ELSE NoMatch

\* The match of re that starts at index i: the first alternative that
\* matches.  start and stop delimit it (stop is the index after it).
RECURSIVE MatchAltsAt(_, _, _, _)
MatchAltsAt(re, t, i, a) ==
    IF a > Len(re.alts) THEN [ok |-> FALSE, start |-> i, stop |-> i,
                              ends |-> <<>>]
    ELSE LET m == MatchFrom(re.alts[a], re.i, t, 1, i)
         IN  IF m.ok
             THEN [ok |-> TRUE, start |-> i,
                   stop |-> IF m.ends = <<>> THEN i ELSE m.ends[Len(m.ends)],
                   ends |-> m.ends]
             ELSE MatchAltsAt(re, t, i, a + 1)

\* The matches of re in t from index i on, left to right, without overlap:
\* all of them under the g flag, the first one without it.
RECURSIVE MatchesFrom(_, _, _, _)
MatchesFrom(re, t, i, acc) ==
    IF i > Len(t) \/ (~re.g /\ acc # <<>>) THEN acc
    ELSE LET m == MatchAltsAt(re, t, i, 1)
         IN  IF m.ok /\ m.stop > i
             THEN MatchesFrom(re, t, m.stop, Append(acc, m))
             ELSE MatchesFrom(re, t, i + 1, acc)

Matches(re, t) == MatchesFrom(re, t, 1, <<>>)

\* re.test(t)
Test(re, t) == Matches(re, t) # <<>>

\* The lexemes that elements from..to of the pattern took in match m.
Group(t, m, from, to) ==
    SubSeq(t, IF from = 1 THEN m.start ELSE m.ends[from - 1],
           m.ends[to] - 1)

\* A replacement string: literal lexemes and group references.
Text(tok) == [tok |-> tok, from |-> 0, to |-> 0]

Ref(from, to) == [tok |-> "", from |-> from, to |-> to]

Expand(template, t, m) ==
    Flatten([j \in 1..Len(template) |->
                IF template[j].from = 0 THEN <<template[j].tok>>
                ELSE Group(t, m, template[j].from, template[j].to)])

\* t.replace(re, template), given the matches ms of re in t
RECURSIVE Rebuild(_, _, _, _, _)
Rebuild(t, ms, template, n, pos) ==
    IF n > Len(ms) THEN SubSeq(t, pos, Len(t))
    ELSE SubSeq(t, pos, ms[n].start - 1)
         \o Expand(template, t, ms[n])
         \o Rebuild(t, ms, template, n + 1, ms[n].stop)

Replace(t, re, template) == Rebuild(t, Matches(re, t), template, 1, 1)

\* t.indexOf(needle) !== -1
Contains(t, needle) ==
    \E i \in 1..Len(t) :
        /\ i + Len(needle) - 1 <= Len(t)
        /\ SubSeq(t, i, i + Len(needle) - 1) = needle

\* t.split(ph).join(text), ph one lexeme
SplitJoin(t, ph, text) ==
    Flatten([k \in 1..Len(t) |-> IF t[k] = ph THEN text ELSE <<t[k]>>])

\* t.replace(ph, text) with a string pattern: the first occurrence only
\* (no lexeme of the model holds a '$').
ReplaceFirst(t, ph, text) ==
    IF \E k \in 1..Len(t) : t[k] = ph
    THEN LET k == CHOOSE k \in 1..Len(t) :
                      t[k] = ph /\ \A j \in 1..k - 1 : t[j] # ph
         IN  SubSeq(t, 1, k - 1) \o text \o SubSeq(t, k + 1, Len(t))
    ELSE t

\* ------------------------------------------------------------------------
\* The patterns of the source
\* ------------------------------------------------------------------------

\* /"data:image\/[^;]+;base64,[\s\S]*?"/g and its single-quote twin
Base64Pattern(q) ==
    RegExp(<< <<Lit(q), Lit("data:image/"), Plus("[^;]"), Lit(";base64,"),
                LazyStar("[\\s\\S]"), Lit(q)>> >>, {"g"})

\* /"data:image\/[^;]+;base64,[^"]*"/g and its single-quote twin
Base64Pattern2(q) ==
    RegExp(<< <<Lit(q), Lit("data:image/"), Plus("[^;]"), Lit(";base64,"),
                Star(IF q = DQ THEN "[^\"]" ELSE "[^']"), Lit(q)>> >>, {"g"})

\* /url\(\s*["']?#[^)"']*["']?\s*\)/gi
UrlPattern ==
    RegExp(<< <<Lit("url("), Star("\\s"), Opt("[\"']"), Lit("#"),
                Star("[^)\"']"), Opt("[\"']"), Star("\\s"), Lit(")")>> >>,
           {"g", "i"})

\* \s*=\s*["']#[^"']*["']
HrefValue ==
    <<Star("\\s"), Lit("="), Star("\\s"), One("[\"']"), Lit("#"),
      Star("[^\"']"), One("[\"']")>>

\* /(xlink:href|ns\d+:href|href)\s*=\s*["']#[^"']*["']/gi
HrefPattern ==
    RegExp(<< <<Lit("xlink"), Lit(":"), Lit("href")>> \o HrefValue,
              <<One("ns\\d+"), Lit(":"), Lit("href")>> \o HrefValue,
              <<Lit("href")>> \o HrefValue >>,
           {"g", "i"})

\* \s*=\s*["']http:\/\/www\.w3\.org\/1999\/xlink["']
XLinkValue ==
    <<Star("\\s"), Lit("="), Star("\\s"), One("[\"']"), Lit(XLinkUri),
      One("[\"']")>>

\* /xmlns:ns(\d+)\s*=\s*["']http:\/\/www\.w3\.org\/1999\/xlink["']/gi
xlinkNsPattern ==
    RegExp(<< <<Lit("xmlns:"), One("ns\\d+")>> \o XLinkValue >>, {"g", "i"})

\* /ns\d+:/i
NsPrefixPattern == RegExp(<< <<One("ns\\d+"), Lit(":")>> >>, {"i"})

\* new RegExp('\\s+ns' + nsNum + ':([a-zA-Z][a-zA-Z0-9-]*)\\s*=', 'gi')
nsToXlinkPattern(nsNum) ==
    RegExp(<< <<Plus("\\s"), Lit("ns" \o nsNum), Lit(":"),
                Plus("[a-zA-Z0-9-]"), Star("\\s"), Lit("=")>> >>,
           {"g", "i"})

\* new RegExp('xmlns:ns' + nsNumForXmlns + '(\\s*=\\s*["\']...["\'])', 'gi')
xmlnsPattern(nsNum) ==
    RegExp(<< <<Lit("xmlns:"), Lit("ns" \o nsNum)>> \o XLinkValue >>,
           {"g", "i"})

\* /<svg([^>]*)>/i
SvgTagPattern == RegExp(<< <<Lit("<svg"), Star("[^>]"), Lit(">")>> >>, {"i"})

\* /\s*xmlns:ns\d+\s*=\s*["'][^"']*["']/gi
AnyNsDeclPattern ==
    RegExp(<< <<Star("\\s"), Lit("xmlns:"), One("ns\\d+"), Star("\\s"),
                Lit("="), Star("\\s"), One("[\"']"), Star("[^\"']"),
                One("[\"']")>> >>, {"g", "i"})

\* /<(\/?)\s*ns\d+:/gi
ElementPrefixPattern ==
    RegExp(<< <<Lit("<"), OptLit("/"), Star("\\s"), One("ns\\d+"),
                Lit(":")>> >>, {"g", "i"})

\* /\s+ns\d+:([a-zA-Z][a-zA-Z0-9-]*)\s*=/gi
AnyNsAttrPattern ==
    RegExp(<< <<Plus("\\s"), One("ns\\d+"), Lit(":"), Plus("[a-zA-Z0-9-]"),
                Star("\\s"), Lit("=")>> >>, {"g", "i"})

\* /(<[^>]*?)\s{2,}([^>]*>)/g
WideTagPattern ==
    RegExp(<< <<One("<"), LazyStar("[^>]"), TwoOrMore("\\s"), Star("[^>]"),
                Lit(">")>> >>, {"g"})

\* /\s{2,}/g
WideWsPattern == RegExp(<< <<TwoOrMore("\\s")>> >>, {"g"})

\* /\s+>/g
WsBeforeGtPattern == RegExp(<< <<Plus("\\s"), Lit(">")>> >>, {"g"})

\* /<\s+/g
WsAfterLtPattern == RegExp(<< <<Lit("<"), Plus("\\s")>> >>, {"g"})

\* ------------------------------------------------------------------------
\* Placeholders
\* ------------------------------------------------------------------------

placeholderPrefix == "___BASE64_PLACEHOLDER_"

idRefPlaceholderPrefix == "___IDREF_PLACEHOLDER_"

placeholderSuffix == "___"

\* prefix + index + suffix: one lexeme
Placeholder(prefix, index) == prefix \o ToString(index) \o placeholderSuffix

\* ------------------------------------------------------------------------
\* JavaScript values passed to hasIssue and normalize
\* ------------------------------------------------------------------------

\* A value is [type |-> what typeof yields, val |-> its content]: the
\* lexemes of a string, a one-lexeme rendering of anything else.
Str(t) == [type |-> "string", val |-> t]

NonStrings ==
    { [type |-> "undefined", val |-> <<"undefined">>],
      [type |-> "object", val |-> <<"null">>],
      [type |-> "object", val |-> <<"{}">>],
      [type |-> "object", val |-> <<"[]">>],
      [type |-> "number", val |-> <<"0">>],
      [type |-> "number", val |-> <<"NaN">>],
      [type |-> "number", val |-> <<"42">>],
      [type |-> "bigint", val |-> <<"0n">>],
      [type |-> "boolean", val |-> <<"false">>],
      [type |-> "boolean", val |-> <<"true">>],
      [type |-> "function", val |-> <<"function(){}">>],
      [type |-> "symbol", val |-> <<"Symbol()">>] }

\* !v
Falsy(v) ==
    \/ v.type = "string" /\ v.val = <<>>
    \/ /\ v.type # "string"
       /\ v.val \in {<<"undefined">>, <<"null">>, <<"0">>, <<"NaN">>,
                     <<"0n">>, <<"false">>}

\* if (!svgString): a guard without the typeof test
FalsyInput(svgString) == Falsy(svgString)

\* if (!svgString || typeof svgString !== 'string')
InvalidInput(svgString) == Falsy(svgString) \/ svgString.type # "string"

\* ------------------------------------------------------------------------
\* hasIssue, first and second definition
\* ------------------------------------------------------------------------

\* Lines 48-54.  threw: a String method called on a value that has none.
hasIssue1(svgString) ==
    IF InvalidInput(svgString) THEN [ret |-> FALSE, threw |-> FALSE]
    ELSE IF svgString.type # "string" THEN [ret |-> FALSE, threw |-> TRUE]
    ELSE [ret |-> Test(xlinkNsPattern, svgString.val), threw |-> FALSE]

\* Lines 591-597.
hasIssue2(svgString) ==
    IF InvalidInput(svgString) THEN [ret |-> FALSE, threw |-> FALSE]
    ELSE IF svgString.type # "string" THEN [ret |-> FALSE, threw |-> TRUE]
    ELSE [ret |-> Test(NsPrefixPattern, svgString.val), threw |-> FALSE]

\* ------------------------------------------------------------------------
\* normalize: the stages of the function body
\* ------------------------------------------------------------------------

\* The state of a call of normalize, and in the end what the call did:
\*   out       the local variable result, as a value; at the end the value
\*             returned
\*   threw     the call ended in a TypeError
\*   path      how the call went: "invalid" (the guard returned), "threw",
\*             "early" (the return of line 135), "rewrite" (the stages
\*             after it ran)
\*   stages    the stages that ran, in order
\*   base64Placeholders, idRefPlaceholders, xlinkNsPrefixes
\*             the arrays of the same names
\*   protected the text when the last protecting replace() had run
\*   org       for each lexeme of that text the input text it stands for
\*   unrestored the text when the restoring loops start
NoRun(svgString, path, threw) ==
    [out |-> svgString, threw |-> threw, path |-> path, stages |-> <<>>,
     base64Placeholders |-> <<>>, idRefPlaceholders |-> <<>>,
     xlinkNsPrefixes |-> <<>>, protected |-> <<>>, org |-> <<>>,
     unrestored |-> <<>>]

\* var result = svgString; (lines 74, 619)
Entered(svgString) ==
    [NoRun(svgString, "early", FALSE)
        EXCEPT !.org = [k \in 1..Len(svgString.val) |-> <<svgString.val[k]>>]]

\* result = result.replace(re, function(match) {...}): every match ms[n]
\* of re in t is pushed on list and replaced by the placeholder of its
\* index; o is carried along.
RECURSIVE ProtectFrom(_, _, _, _, _, _, _)
ProtectFrom(t, o, ms, prefix, list, n, pos) ==
    IF n > Len(ms)
    THEN [res |-> SubSeq(t, pos, Len(t)), org |-> SubSeq(o, pos, Len(o)),
          list |-> list]
    ELSE LET rest == ProtectFrom(t, o, ms, prefix,
                         Append(list, SubSeq(t, ms[n].start, ms[n].stop - 1)),
                         n + 1, ms[n].stop)
         IN  [res |-> SubSeq(t, pos, ms[n].start - 1)
                      \o <<Placeholder(prefix, Len(list))>> \o rest.res,
              org |-> SubSeq(o, pos, ms[n].start - 1)
                      \o <<Flatten(SubSeq(o, ms[n].start, ms[n].stop - 1))>>
                      \o rest.org,
              list |-> rest.list]

\* Lines 82-86 and 89-93 (632-636 and 639-643 in the second definition).
ProtectedBase64(st, acc) ==
    [st EXCEPT !.out = Str(acc.res), !.org = acc.org,
               !.protected = acc.res, !.base64Placeholders = acc.list,
               !.stages = Append(@, "protectBase64")]

ProtectBase64(st, re) ==
    ProtectedBase64(st,
        ProtectFrom(st.out.val, st.org, Matches(re, st.out.val),
                    placeholderPrefix, st.base64Placeholders, 1, 1))

\* Lines 101-105 and 108-112.
ProtectedIdRefs(st, acc) ==
    [st EXCEPT !.out = Str(acc.res), !.org = acc.org,
               !.protected = acc.res, !.idRefPlaceholders = acc.list,
               !.stages = Append(@, "protectIdRefs")]

ProtectIdRefs(st, re) ==
    ProtectedIdRefs(st,
        ProtectFrom(st.out.val, st.org, Matches(re, st.out.val),
                    idRefPlaceholderPrefix, st.idRefPlaceholders, 1, 1))

\* Lines 116-121 (647-652): the exec() loop pushes group 1 of every match.
Collected(t, ms) == [n \in 1..Len(ms) |-> NsDigits(t[ms[n].start + 1])]

Collect(st) ==
    [st EXCEPT !.xlinkNsPrefixes =
                   Collected(st.out.val, Matches(xlinkNsPattern, st.out.val)),
               !.stages = Append(@, "collect")]

\* Lines 140-144 (665-669): result.replace(nsToXlinkPattern, ' xlink:$1=')
\* for every collected number.
RECURSIVE NsToXlinkFrom(_, _, _)
NsToXlinkFrom(t, prefixes, j) ==
    IF j > Len(prefixes) THEN t
    ELSE NsToXlinkFrom(
             Replace(t, nsToXlinkPattern(prefixes[j]),
                     <<Text(" "), Text("xlink"), Text(":"), Ref(4, 4),
                       Text("=")>>),
             prefixes, j + 1)

RewriteAttrs(st) ==
    [st EXCEPT !.out = Str(NsToXlinkFrom(st.out.val, st.xlinkNsPrefixes, 1)),
               !.path = "rewrite",
               !.stages = Append(@, "rewriteAttrs")]

\* Lines 148-152: result.replace(xmlnsPattern, 'xmlns:xlink$1') for every
\* collected number.
RECURSIVE XmlnsToXlinkFrom(_, _, _)
XmlnsToXlinkFrom(t, prefixes, k) ==
    IF k > Len(prefixes) THEN t
    ELSE XmlnsToXlinkFrom(
             Replace(t, xmlnsPattern(prefixes[k]),
                     <<Text("xmlns:"), Text("xlink"), Ref(3, 8)>>),
             prefixes, k + 1)

RewriteDecls(st) ==
    [st EXCEPT !.out = Str(XmlnsToXlinkFrom(st.out.val, st.xlinkNsPrefixes, 1)),
               !.stages = Append(@, "rewriteDecls")]

\* '<svg$1 xmlns:xlink="http://www.w3.org/1999/xlink">'
XlinkDeclaration ==
    <<Text("<svg"), Ref(2, 2), Text(" "), Text("xmlns:"), Text("xlink"),
      Text("="), Text(DQ), Text(XLinkUri), Text(DQ), Text(">")>>

\* Lines 155-160 (677-682).
EnsureXlinkDeclaration(st) ==
    [st EXCEPT !.out =
                   IF /\ Contains(st.out.val, <<"xlink", ":", "href">>)
                      /\ ~Contains(st.out.val, <<"xmlns:", "xlink">>)
                   THEN Str(Replace(st.out.val, SvgTagPattern,
                                    XlinkDeclaration))
                   ELSE @,
               !.stages = Append(@, "ensureXlinkDeclaration")]

\* Lines 125-128 and 163-166: split(placeholder).join(text) for every index
\* in ascending order; 130-133 and 169-172 likewise.
RECURSIVE RestoreFrom(_, _, _, _)
RestoreFrom(t, prefix, list, n) ==
    IF n > Len(list) THEN t
    ELSE RestoreFrom(SplitJoin(t, Placeholder(prefix, n - 1), list[n]),
                     prefix, list, n + 1)

\* The loop of lines 163-166 with p starting at 1.
RestoreIdRefsFromSecond(st) ==
    [st EXCEPT !.out = Str(RestoreFrom(st.out.val, idRefPlaceholderPrefix,
                                       st.idRefPlaceholders, 2)),
               !.unrestored = st.out.val,
               !.stages = Append(@, "restoreIdRefs")]

RestoreIdRefs(st) ==
    [st EXCEPT !.out = Str(RestoreFrom(st.out.val, idRefPlaceholderPrefix,
                                       st.idRefPlaceholders, 1)),
               !.unrestored = st.out.val,
               !.stages = Append(@, "restoreIdRefs")]

RestoreBase64(st) ==
    [st EXCEPT !.out = Str(RestoreFrom(st.out.val, placeholderPrefix,
                                       st.base64Placeholders, 1)),
               !.stages = Append(@, "restoreBase64")]

\* Lines 138-160: the stages between the early exit and the restoring.
Rewrite(st) == EnsureXlinkDeclaration(RewriteDecls(RewriteAttrs(st)))

\* if (xlinkNsPrefixes.length === 0) of line 124
EarlyExit(st) == Len(st.xlinkNsPrefixes) = 0

\* Lines 69-175.
normalize1(svgString) ==
    IF InvalidInput(svgString) THEN NoRun(svgString, "invalid", FALSE)
    ELSE IF svgString.type # "string" THEN NoRun(svgString, "threw", TRUE)
    ELSE LET st == Collect(
                     ProtectIdRefs(
                       ProtectIdRefs(
                         ProtectBase64(
                           ProtectBase64(Entered(svgString),
                                         Base64Pattern(DQ)),
                           Base64Pattern(SQ)),
                         UrlPattern),
                       HrefPattern))
         IN  RestoreBase64(RestoreIdRefs(
                 IF EarlyExit(st) THEN st ELSE Rewrite(st)))

\* ------------------------------------------------------------------------
\* normalize, second definition (lines 614-707)
\* ------------------------------------------------------------------------

\* Line 656: every xmlns:ns<digits> declaration is removed.
RemoveNsDecls(st) ==
    [st EXCEPT !.out = Str(Replace(st.out.val, AnyNsDeclPattern, <<>>)),
               !.path = "rewrite",
               !.stages = Append(@, "removeNsDecls")]

\* Line 661: result.replace(/<(\/?)\s*ns\d+:/gi, '<$1')
StripElementPrefixes(st) ==
    [st EXCEPT !.out = Str(Replace(st.out.val, ElementPrefixPattern,
                                   <<Text("<"), Ref(2, 2)>>)),
               !.stages = Append(@, "stripElementPrefixes")]

\* Line 674: result.replace(/\s+ns\d+:(...)\s*=/gi, ' $1=')
StripAttrPrefixes(st) ==
    [st EXCEPT !.out = Str(Replace(st.out.val, AnyNsAttrPattern,
                                   <<Text(" "), Ref(4, 4), Text("=")>>)),
               !.stages = Append(@, "stripAttrPrefixes")]

\* '<svg$1 xmlns="http://www.w3.org/2000/svg">'
SvgDeclaration ==
    <<Text("<svg"), Ref(2, 2), Text(" "), Text("xmlns"), Text("="),
      Text(DQ), Text(SvgUri), Text(DQ), Text(">")>>

\* Lines 685-691.
EnsureSvgDeclaration(st) ==
    [st EXCEPT !.out =
                   IF /\ ~Contains(st.out.val, <<"xmlns", "=", DQ, SvgUri, DQ>>)
                      /\ ~Contains(st.out.val, <<"xmlns", "=", SQ, SvgUri, SQ>>)
                   THEN Str(Replace(st.out.val, SvgTagPattern, SvgDeclaration))
                   ELSE @,
               !.stages = Append(@, "ensureSvgDeclaration")]

\* Lines 694-696: every match of the tag pattern is replaced by itself with
\* its runs of two or more white-space characters made one space.
RECURSIVE CollapseFrom(_, _, _, _)
CollapseFrom(t, ms, n, pos) ==
    IF n > Len(ms) THEN SubSeq(t, pos, Len(t))
    ELSE SubSeq(t, pos, ms[n].start - 1)
         \o Replace(SubSeq(t, ms[n].start, ms[n].stop - 1), WideWsPattern,
                    <<Text(" ")>>)
         \o CollapseFrom(t, ms, n + 1, ms[n].stop)

\* Lines 694-698.
CleanWhitespace(st) ==
    [st EXCEPT !.out =
                   Str(Replace(
                         Replace(
                           CollapseFrom(st.out.val,
                                        Matches(WideTagPattern, st.out.val),
                                        1, 1),
                           WsBeforeGtPattern, <<Text(">")>>),
                         WsAfterLtPattern, <<Text("<")>>)),
               !.stages = Append(@, "cleanWhitespace")]

\* Lines 701-704: result.replace(placeholder, text), first occurrence only.
RECURSIVE RestoreFirstFrom(_, _, _, _)
RestoreFirstFrom(t, prefix, list, n) ==
    IF n > Len(list) THEN t
    ELSE RestoreFirstFrom(
             ReplaceFirst(t, Placeholder(prefix, n - 1), list[n]),
             prefix, list, n + 1)

RestoreBase64First(st) ==
    [st EXCEPT !.out = Str(RestoreFirstFrom(st.out.val, placeholderPrefix,
                                            st.base64Placeholders, 1)),
               !.stages = Append(@, "restoreBase64")]

\* Lines 614-707.
normalize2(svgString) ==
    IF InvalidInput(svgString) THEN NoRun(svgString, "invalid", FALSE)
    ELSE IF svgString.type # "string" THEN NoRun(svgString, "threw", TRUE)
    ELSE RestoreBase64First(
           CleanWhitespace(
             EnsureSvgDeclaration(
               EnsureXlinkDeclaration(
                 StripAttrPrefixes(
                   RewriteAttrs(
                     StripElementPrefixes(
                       RemoveNsDecls(
                         Collect(
                           ProtectBase64(
                             ProtectBase64(Entered(svgString),
                                           Base64Pattern2(DQ)),
                             Base64Pattern2(SQ)))))))))))

\* ------------------------------------------------------------------------
\* Input documents of the model
\* ------------------------------------------------------------------------

Base64Url == <<DQ, "data:image/", "png", ";base64,", "AAAA", DQ>>

\* The pieces input documents are assembled from.
Fragments ==
    { <<"<svg">>,
      <<">">>,
      <<" ", "xmlns:", "ns1", "=", DQ, XLinkUri, DQ>>,
      <<" ", "xmlns:", "ns2", " ", "=", " ", SQ, XLinkUriUpper, SQ>>,
      <<" ", "xmlns:", "ns2", "=", DQ, SvgUri, DQ>>,
      <<" ", "xmlns:", "xlink", "=", DQ, XLinkUri, DQ>>,
      <<" ", "ns1", ":", "href", "=">> \o Base64Url,
      <<" ", "ns1", ":", "href", "=", DQ, "#", "a", DQ>>,
      <<" ", "\n", "ns2", ":", "x", " ", "=", DQ, "b", DQ>>,
      <<" ", "xlink", ":", "href", "=", DQ, "b", DQ>>,
      <<" ", "fill", "=", DQ, "url(", "#", "ns1", ")", DQ>>,
      <<" ", "href", "=", DQ, "#",
        "url(", "#", "a", ")", "url(", "#", "b", ")", DQ>>,
      <<"url(", "#">> \o Base64Url \o <<")">>,
      <<"<", "ns2", ":", "g", ">">>,
      <<"___IDREF_PLACEHOLDER_0___">>,
      <<"___BASE64_PLACEHOLDER_0___">> }

\* All concatenations of n fragments.
RECURSIVE Documents(_)
Documents(n) ==
    IF n = 0 THEN {<<>>}
    ELSE {f \o d : f \in Fragments, d \in Documents(n - 1)}

Inputs ==
    NonStrings \cup {Str(d) : d \in UNION {Documents(n) : n \in 0..MaxFrags}}

\* ------------------------------------------------------------------------
\* The loaded file and the calls made on it
\* ------------------------------------------------------------------------

VARIABLES
    loaded,     \* how many of the file's two UMD wrappers have been evaluated
    exposed,    \* the factory whose object the export target holds
    svgString,  \* the argument of the calls
    op,         \* the last call: "none", "hasIssue", "normalize", "fedback"
    callee,     \* the definition that ran: 1 (lines 38-540), 2 (lines 581-1047)
    via,        \* "export": through the exported object; "closure": through
                \* the first factory's own SvgNamespaceNormalizer variable
    test,       \* what hasIssue returned
    run,        \* what normalize did
    fed,        \* the argument is the output of an earlier normalize call
    prev,       \* that earlier call
    functions,  \* normalize and hasIssue of the two factories' objects
    host,       \* the globals of the environment and the factories' variables
    instance,   \* the EntryPaint instance the host created
    request,    \* the XMLHttpRequest of a loadAndNormalize call
    last,       \* the last call of the host's code and what it gave
    calls       \* how many calls the host's code made

callVars ==
    <<loaded, exposed, svgString, op, callee, via, test, run, fed, prev,
      functions>>

hostVars == <<host, instance, request, last, calls>>

vars == <<callVars, hostVars>>

NoTest == [ret |-> FALSE, threw |-> FALSE]

NoCall == NoRun(Str(<<>>), "none", FALSE)

HasIssueOf(v, s) == IF v = 1 THEN hasIssue1(s) ELSE hasIssue2(s)

NormalizeOf(v, s) == IF v = 1 THEN normalize1(s) ELSE normalize2(s)

\* module.exports = factory() / root.SvgNamespaceNormalizer = factory():
\* the definition a call through the export reaches.
ExposedDefinition == IF exposed = "first" THEN 1 ELSE 2

\* ------------------------------------------------------------------------
\* The host: the globals the two factories patch and poll
\* ------------------------------------------------------------------------

\* Ticks an interval gets before its timeout is due (10000 / 100 and
\* 30000 / 500 in the source).
MaxTicks == 1

\* Calls the host's own code makes on the exported object.
MaxCalls == 2

\* Calls of a loader or converter the host's own code makes.
MaxLoads == 1

\* The entries integrateWithEntry writes into Entry.Utils: the second
\* factory the first four (lines 823-826), the first all (lines 305-311).
UtilsOfSecond ==
    {"normalizeSvgNamespace", "hasSvgNamespaceIssue",
     "fetchAndNormalizeSvg", "svgToNormalizedDataUrl"}

UtilsOfFirst ==
    UtilsOfSecond \cup
    {"svgToNormalizedBlobUrl", "loadAndNormalizeSvg", "normalizeSvgElement"}

\* window.fetch = function (url, options) {...}: the wrapper a factory
\* installs. All wrappers of a factory read the same originalFetch variable.
Wrapper(v) == IF v = 1 THEN "wrapper1" ELSE "wrapper2"

\* The host before the file is evaluated.
\*   readyState     document.readyState; "none": no document and no window
\*   listeners      the factories whose autoInit waits for DOMContentLoaded
\*   isInitialized  the variable of lines 39 and 582, per factory
\*   originalFetch  the variable of lines 40 and 583, per factory
\*   fetch          the global fetch
\*   XMLHttpRequest the factories whose wrappers lie on
\*                  XMLHttpRequest.prototype.open and .send, innermost first
\*   Entry          "undefined", "noUtils" (Entry without Utils), "Utils"
\*   Utils          per entry of Entry.Utils the factory whose function it
\*                  holds, 0 for none
\*   integrated     SvgNamespaceNormalizer._entryIntegrated of the first
\*                  factory's object
\*   EntryPaint     "undefined" or "loaded" (window.EntryPaint.default)
\*   create         the factories whose wrappers lie on
\*                  EntryPaint.default.create, innermost first
\*   timers         the intervals started, with their timeouts
\*   unpatched      per factory the fetch its first patchFetch found
\*                  ("none" before that)
NoHost(readyState, Entry, EntryPaint) ==
    [readyState     |-> readyState,
     listeners      |-> <<>>,
     isInitialized  |-> <<FALSE, FALSE>>,
     originalFetch  |-> <<"null", "null">>,
     fetch          |-> "native",
     XMLHttpRequest |-> <<>>,
     Entry          |-> Entry,
     Utils          |-> [n \in UtilsOfFirst |-> 0],
     integrated     |-> FALSE,
     EntryPaint     |-> EntryPaint,
     create         |-> <<>>,
     timers         |-> <<>>,
     unpatched      |-> <<"none", "none">>]

\* typeof window !== 'undefined'
HasWindow(h) == h.readyState # "none"

\* Lines 289-318 (first factory) and 821-829 (second factory): the host
\* after the call, what it returned, and whether it wrote the entries of
\* Entry.Utils.
integrateWithEntry(h, v) ==
    IF v = 1
    THEN IF h.integrated
         THEN [host |-> h, ret |-> "true", assigned |-> FALSE]
         ELSE IF h.Entry = "undefined"
         THEN [host |-> h, ret |-> "false", assigned |-> FALSE]
         ELSE [host |-> [h EXCEPT !.Entry = "Utils",
                                  !.Utils = [n \in UtilsOfFirst |-> 1],
                                  !.integrated = TRUE],
               ret |-> "true", assigned |-> TRUE]
    ELSE IF h.Entry = "Utils"
         THEN [host |-> [h EXCEPT !.Utils = [n \in UtilsOfFirst |->
                                      IF n \in UtilsOfSecond THEN 2 ELSE @[n]]],
               ret |-> "undefined", assigned |-> TRUE]
         ELSE [host |-> h, ret |-> "undefined", assigned |-> FALSE]

\* Lines 323-361 (834-872): the guard, the capture and the assignment.
patchFetch(h, v) ==
    IF h.fetch = "undefined" \/ h.originalFetch[v] # "null" THEN h
    ELSE [h EXCEPT !.originalFetch[v] = h.fetch,
                   !.fetch = Wrapper(v),
                   !.unpatched[v] = IF @ = "none" THEN h.fetch ELSE @]

\* Lines 366-414 (877-925): no guard; the new open and send call the ones
\* that were there.
patchXHR(h, v) == [h EXCEPT !.XMLHttpRequest = Append(@, v)]

\* An interval with its timeout.
\*   entryIntegrated  the local flag of line 489 (first factory)
\*   sawEntry         a tick of it ran while Entry was defined
\*   started          what Entry was when the interval was started
Timer(kind, v, Entry) ==
    [kind |-> kind, of |-> v, active |-> TRUE, ticks |-> 0,
     expired |-> FALSE, entryIntegrated |-> FALSE, sawEntry |-> FALSE,
     started |-> Entry]

\* Lines 419-458 (930-969): the interval of 100 ms and its timeout.
patchEntryPaint(h, v) == [h EXCEPT !.timers = Append(@, Timer("paint", v, h.Entry))]

\* Lines 463-507 (974-1014), where there is a window: the flag, the two
\* patches, integrateWithEntry if Entry is defined (lines 478-480, 989-991),
\* patchEntryPaint, and the interval of 500 ms with its timeout (lines
\* 488-504, 999-1011).
autoInit(h, v) ==
    IF h.isInitialized[v] THEN h
    ELSE LET patched ==
                 patchXHR(patchFetch([h EXCEPT !.isInitialized[v] = TRUE], v), v)
             integrated ==
                 IF patched.Entry # "undefined"
                 THEN integrateWithEntry(patched, v).host ELSE patched
             polled == patchEntryPaint(integrated, v)
         IN  [polled EXCEPT
                 !.timers = Append(@, Timer("entry", v, polled.Entry))]

\* Lines 512-519 (1019-1026).
disable(h, v) ==
    [h EXCEPT !.fetch = IF h.originalFetch[v] # "null"
                        THEN h.originalFetch[v] ELSE @,
              !.originalFetch[v] = "null",
              !.isInitialized[v] = FALSE]

\* The mistake of initializing without looking for a document.
AutoExecuteAnywhere(h, v) == autoInit(h, v)

\* Lines 528-538 (1035-1045): what the end of a factory does.
AutoExecute(h, v) ==
    IF h.readyState = "none" THEN h
    ELSE IF h.readyState = "loading"
    THEN [h EXCEPT !.listeners = Append(@, v)]
    ELSE autoInit(h, v)

\* ------------------------------------------------------------------------
\* The loaders and converters
\* ------------------------------------------------------------------------

\* The documents the network, the callers and the serializer hand over.
HostDocuments ==
    { <<"<svg", ">">>,
      <<"<svg", " ", "xmlns:", "ns1", "=", DQ, XLinkUri, DQ,
        " ", "ns1", ":", "href", "=">> \o Base64Url \o <<">">>,
      <<"<", "ns2", ":", "g", ">">> }

\* What the normalize calls of either factory make of the documents, one
\* after the other.
NormalForms ==
    { <<"<", "g", ">">>,
      <<"<svg", " ", "xmlns", "=", DQ, SvgUri, DQ, ">">>,
      <<"<svg", " ", "xmlns:", "xlink", "=", DQ, XLinkUri, DQ,
        " ", "xlink", ":", "href", "=">> \o Base64Url \o <<">">>,
      <<"<svg", " ", "xmlns:", "xlink", "=", DQ, XLinkUri, DQ,
        " ", "xlink", ":", "href", "=">> \o Base64Url
        \o <<" ", "xmlns", "=", DQ, SvgUri, DQ, ">">>,
      <<"<svg", " ", "xlink", ":", "href", "=">> \o Base64Url
        \o <<" ", "xmlns:", "xlink", "=", DQ, XLinkUri, DQ,
              " ", "xmlns", "=", DQ, SvgUri, DQ, ">">> }

\* normalize and hasIssue of the two factories' objects on the texts that
\* occur, as the definitions above compute them.
Functions ==
    LET HostTexts == HostDocuments \cup {<<>>} \cup NormalForms
    IN  [normalize |-> [v \in 1..2 |-> [t \in HostTexts |->
                            NormalizeOf(v, Str(t)).out]],
         hasIssue  |-> [v \in 1..2 |-> [t \in HostTexts |->
                            HasIssueOf(v, Str(t)).ret]]]

\* SvgNamespaceNormalizer.normalize(s) of factory v in the loaded file.
normalize(v, s) == functions.normalize[v][s.val]

\* SvgNamespaceNormalizer.hasIssue(s) of factory v in the loaded file.
hasIssue(v, s) == functions.hasIssue[v][s.val]

\* URLs: a name and its extension.
Urls == {<<"a", ".svg">>, <<"a", ".SVG">>, <<"a", ".png">>}

\* url.toLowerCase().endsWith('.svg') (lines 335 and 378), toLowerCase on
\* the extensions that occur.
EndsWithSvg(url) ==
    /\ Len(url) > 0
    /\ (IF url[Len(url)] = ".SVG" THEN ".svg" ELSE url[Len(url)]) = ".svg"

\* What the network answers to a request: no answer at all (failed), or a
\* status, whether the content type holds image/svg, and the body.
Answer(failed, status, svgType, text) ==
    [failed |-> failed, status |-> status, svgType |-> svgType, text |-> text,
     message |-> IF failed THEN <<"Failed to fetch">> ELSE <<>>,
     normalized |-> 0]

Answers ==
    {Answer(TRUE, 0, FALSE, Str(<<>>))} \cup
    {Answer(FALSE, s, t, Str(d)) :
        s \in {200, 404}, t \in BOOLEAN, d \in HostDocuments}

\* The requests: a URL and what the network will answer.
Requests == {[url |-> u, answer |-> a] : u \in Urls, a \in Answers}

\* Lines 332-356 (843-867): what the wrapper of factory v makes of the
\* response r of the function beneath it. normalized counts the calls of
\* normalize on the way.
ThroughWrapper(v, url, r) ==
    IF r.failed THEN r
    ELSE IF (EndsWithSvg(url) \/ r.svgType) /\ hasIssue(v, r.text)
    THEN [r EXCEPT !.text = normalize(v, r.text),
                   !.normalized = @ + 1]
    ELSE r

\* originalFetch.apply(this, arguments) on null (line 331): a TypeError.
NotAFunction ==
    [Answer(TRUE, 0, FALSE, Str(<<>>)) EXCEPT
        !.message = <<"TypeError">>]

\* Calling the fetch function f: the native one gives the network's answer,
\* a wrapper calls what its factory's originalFetch holds now.
RECURSIVE Fetched(_, _, _, _)
Fetched(h, f, req, depth) ==
    IF f = "native" THEN req.answer
    ELSE IF f = "null" \/ depth = 0 THEN NotAFunction
    ELSE ThroughWrapper(IF f = "wrapper1" THEN 1 ELSE 2, req.url,
            Fetched(h, h.originalFetch[IF f = "wrapper1" THEN 1 ELSE 2],
                    req, depth - 1))

\* What a call gave: how it ended ("returned", "threw", "resolved",
\* "rejected"), the message of the error, the value, how often normalize
\* ran for it, and how many of these calls the fetch wrappers made.
Outcome(kind, message, value, normalized) ==
    [kind |-> kind, message |-> message, value |-> value,
     normalized |-> normalized, wrappers |-> 0]

\* null
NoValue == [type |-> "object", val |-> <<"null">>]

\* The mistake of leaving out the test of response.ok.
AfterFetchUntested(v, r) ==
    [(IF r.failed
      THEN Outcome("rejected", r.message, NoValue, r.normalized)
      ELSE Outcome("resolved", <<>>, normalize(v, r.text),
                   r.normalized + 1))
        EXCEPT !.wrappers = r.normalized]

\* Lines 190-198 (722-730): the two then() callbacks on the response r.
AfterFetch(v, r) ==
    [(IF r.failed
      THEN Outcome("rejected", r.message, NoValue, r.normalized)
      ELSE IF r.status \notin 200..299
      THEN Outcome("rejected",
                   <<"Failed to fetch SVG: ", ToString(r.status)>>,
                   NoValue, r.normalized)
      ELSE Outcome("resolved", <<>>, normalize(v, r.text),
                   r.normalized + 1))
        EXCEPT !.wrappers = r.normalized]

\* Lines 185-199 (717-731).
fetchAndNormalize(h, v, req) ==
    AfterFetch(v, Fetched(h, h.fetch, req, 4))

\* Lines 207-213 (739-745): encodeURIComponent with the two replacements
\* gives the text in its percent-encoded form.
toDataUrl(v, s) ==
    Outcome("returned", <<>>,
            [type |-> "dataUrl", val |-> [encoded |-> normalize(v, s).val]],
            1)

\* Lines 221-225 (753-757).
toBlobUrl(v, s) ==
    Outcome("returned", <<>>,
            [type |-> "blobUrl", val |-> normalize(v, s).val], 1)

\* The request for a data: URL: the URL does not end in .svg, the answer is
\* the decoded text with the media type of the URL.
DataUrlRequest(d) ==
    [url    |-> <<"data:image/svg+xml,", "encoded">>,
     answer |-> Answer(FALSE, 200, TRUE, Str(d.val.encoded))]

\* Lines 431-443 (942-954): instance.addSVG with the wrappers of layers
\* 1..k around the original; normalized adds up the calls of normalize.
RECURSIVE addSVG(_, _, _, _, _)
addSVG(h, layers, k, req, n) ==
    IF k = 0 THEN Outcome("resolved", <<>>, req.url, n)
    ELSE LET f == fetchAndNormalize(h, layers[k], req)
         IN  IF f.kind = "resolved"
             THEN addSVG(h, layers, k - 1,
                         DataUrlRequest(toDataUrl(layers[k], f.value).value),
                         n + f.normalized + 1)
             ELSE addSVG(h, layers, k - 1, req, n + f.normalized)

\* The arguments of normalizeElement: falsy values, an element with its
\* serialization, and a truthy value that is no node (the number 42).
Elements ==
    {x \in NonStrings \cup {Str(<<>>)} : Falsy(x)} \cup
    {[type |-> "element", val |-> d, node |-> "argument"] :
        d \in HostDocuments} \cup
    {[type |-> "number", val |-> <<"42">>]}

\* The mistake of handing back the parsed document whatever it holds.
ParsedWhateverItHolds(v, svgElement, parsererror) ==
    IF Falsy(svgElement) THEN Outcome("returned", <<>>, svgElement, 0)
    ELSE IF svgElement.type # "element"
    THEN Outcome("threw", <<"TypeError">>, NoValue, 0)
    ELSE Outcome("returned", <<>>,
                 [type |-> "element",
                  val |-> normalize(v, Str(svgElement.val)).val,
                  node |-> "parsed"], 1)

\* Lines 263-283 (795-815); parsererror: the parsed document holds a
\* parsererror element.
normalizeElement(v, svgElement, parsererror) ==
    IF Falsy(svgElement) THEN Outcome("returned", <<>>, svgElement, 0)
    ELSE IF svgElement.type # "element"
    THEN Outcome("threw", <<"TypeError">>, NoValue, 0)
    ELSE IF parsererror THEN Outcome("returned", <<>>, svgElement, 1)
    ELSE Outcome("returned", <<>>,
                 [type |-> "element",
                  val |-> normalize(v, Str(svgElement.val)).val,
                  node |-> "parsed"], 1)

\* An XMLHttpRequest of loadAndNormalize.
\*   state      "unsent", "sent", "failing" (done, its error event is still
\*              to come), "done"
\*   of         the factory whose loadAndNormalize made it
\*   wrapped    the factories whose send wrapped onreadystatechange
\*   throws     the callback throws when it is called
\*   status     xhr.status at readyState 4
\*   callbacks  the calls of the callback so far: error message and result
\*   normalized how often normalize ran on the response
\*   uncaught   an exception left the handler
NoRequest ==
    [state |-> "unsent", of |-> 0, wrapped |-> <<>>, throws |-> FALSE,
     status |-> 0,
     callbacks |-> <<>>, normalized |-> 0, uncaught |-> FALSE]

\* Lines 234-255 (766-787) with the send of lines 375-411 (886-922).
loadAndNormalize(h, v, url, throws) ==
    [NoRequest EXCEPT
        !.state = "sent", !.of = v, !.throws = throws,
        !.wrapped = IF EndsWithSvg(url) THEN h.XMLHttpRequest ELSE <<>>]

\* What the network answers to the XMLHttpRequest: status 0 with the error
\* event to follow, or a status and the body.
XhrAnswers ==
    {[status |-> 0, error |-> TRUE, text |-> Str(<<>>)]} \cup
    {[status |-> s, error |-> FALSE, text |-> Str(d)] :
        s \in {200, 204, 404}, d \in HostDocuments}

\* Lines 382-407 (893-918): the wrapping handlers, the one of the innermost
\* send first. x: the responseText as the handlers see it, whether
\* defineProperty has fixed it, and the calls of normalize.
RECURSIVE Wrappers(_, _, _, _)
Wrappers(layers, k, status, x) ==
    IF k > Len(layers) THEN x
    ELSE IF status = 200 /\ hasIssue(layers[k], x.text)
    THEN Wrappers(layers, k + 1, status,
            [text |-> IF x.fixed THEN x.text
                      ELSE normalize(layers[k], x.text),
             fixed |-> TRUE,
             normalized |-> x.normalized + 1])
    ELSE Wrappers(layers, k + 1, status, x)

\* callback(error, result): the call is recorded; throws: it threw.
Called(r, message, result) ==
    [r EXCEPT !.callbacks = Append(@, [error |-> message, result |-> result])]

\* Lines 238-249 (770-781): the handler of loadAndNormalize, after the
\* wrapping handlers gave x.
Handler(r, status, x) ==
    IF status = 200
    THEN IF r.throws
         THEN [Called(Called([r EXCEPT !.normalized = x.normalized + 1],
                             <<>>, normalize(r.of, x.text)),
                      <<"thrown by the callback">>, NoValue)
                  EXCEPT !.uncaught = TRUE]
         ELSE Called([r EXCEPT !.normalized = x.normalized + 1],
                     <<>>, normalize(r.of, x.text))
    ELSE [Called([r EXCEPT !.normalized = x.normalized],
                 <<"Failed to load SVG: ", ToString(status)>>, NoValue)
             EXCEPT !.uncaught = r.throws]

\* readyState 4: the handlers run on the answer a.
onreadystatechange(r, a) ==
    [Handler(r, a.status,
             Wrappers(r.wrapped, 1, a.status,
                      [text |-> a.text, fixed |-> FALSE, normalized |-> 0]))
        EXCEPT !.state = IF a.error THEN "failing" ELSE "done",
               !.status = a.status]

\* Lines 251-253 (783-785).
onerror(r) ==
    [Called(r, <<"Network error while loading SVG">>, NoValue)
        EXCEPT !.state = "done", !.uncaught = @ \/ r.throws]

\* No call of the host's code yet.
NoLast ==
    [op |-> "none", of |-> 0, arg |-> NoValue,
     outcome |-> Outcome("none", <<>>, NoValue, 0)]

Init ==
    /\ functions = Functions
    /\ loaded = 0
    /\ exposed = "none"
    /\ svgString \in Inputs
    /\ op = "none"
    /\ callee = 0
    /\ via = "none"
    /\ test = NoTest
    /\ run = NoCall
    /\ fed = FALSE
    /\ prev = NoCall
    /\ host = NoHost("none", "undefined", "undefined")
    /\ instance = [created |-> FALSE, addSVG |-> <<>>]
    /\ request = NoRequest
    /\ last = NoLast
    /\ calls = 0

\* Lines 23-35 and 540: the first wrapper assigns its factory's object.
EvalFirstWrapper ==
    /\ loaded = 0
    /\ loaded' = 1
    /\ exposed' = "first"
    /\ host' = AutoExecute(host, 1)
    /\ UNCHANGED <<svgString, op, callee, via, test, run, fed, prev, functions>>
    /\ UNCHANGED <<instance, request, last, calls>>

\* Lines 566-578 and 1047: the second wrapper assigns to the same target.
EvalSecondWrapper ==
    /\ loaded = 1
    /\ loaded' = 2
    /\ exposed' = "second"
    /\ host' = AutoExecute(host, 2)
    /\ UNCHANGED <<svgString, op, callee, via, test, run, fed, prev, functions>>
    /\ UNCHANGED <<instance, request, last, calls>>

\* SvgNamespaceNormalizer.hasIssue(svgString) by a user of the export.
HasIssueExported ==
    /\ loaded = 2 /\ op = "none" /\ ~fed
    /\ op' = "hasIssue"
    /\ callee' = ExposedDefinition
    /\ via' = "export"
    /\ test' = HasIssueOf(ExposedDefinition, svgString)
    /\ UNCHANGED <<loaded, exposed, svgString, run, fed, prev>>
    /\ UNCHANGED <<functions, hostVars>>

\* SvgNamespaceNormalizer.hasIssue(svgText) inside the first factory
\* (lines 341 and 385).
HasIssueFirst ==
    /\ loaded = 2 /\ op = "none" /\ ~fed
    /\ op' = "hasIssue"
    /\ callee' = 1
    /\ via' = "closure"
    /\ test' = HasIssueOf(1, svgString)
    /\ UNCHANGED <<loaded, exposed, svgString, run, fed, prev>>
    /\ UNCHANGED <<functions, hostVars>>

\* SvgNamespaceNormalizer.normalize(svgString) by a user of the export.
NormalizeExported ==
    /\ loaded = 2 /\ op = "none" /\ ~fed
    /\ op' = "normalize"
    /\ callee' = ExposedDefinition
    /\ via' = "export"
    /\ run' = NormalizeOf(ExposedDefinition, svgString)
    /\ UNCHANGED <<loaded, exposed, svgString, test, fed, prev>>
    /\ UNCHANGED <<functions, hostVars>>

\* SvgNamespaceNormalizer.normalize(...) inside the first factory
\* (lines 197, 208, 222, 241, 270, 342, 386).
NormalizeFirst ==
    /\ loaded = 2 /\ op = "none" /\ ~fed
    /\ op' = "normalize"
    /\ callee' = 1
    /\ via' = "closure"
    /\ run' = NormalizeOf(1, svgString)
    /\ UNCHANGED <<loaded, exposed, svgString, test, fed, prev>>
    /\ UNCHANGED <<functions, hostVars>>

\* The caller passes the string it got back to the same function again:
\* first the hand-over ...
FeedBack ==
    /\ op = "normalize" /\ ~fed /\ ~run.threw
    /\ svgString' = run.out
    /\ prev' = run
    /\ fed' = TRUE
    /\ op' = "fedback"
    /\ UNCHANGED <<loaded, exposed, callee, via, test, run>>
    /\ UNCHANGED <<functions, hostVars>>

\* ... then the second call.
NormalizeAgain ==
    /\ op = "fedback"
    /\ op' = "normalize"
    /\ run' = NormalizeOf(callee, svgString)
    /\ UNCHANGED <<loaded, exposed, svgString, callee, via, test, fed, prev>>
    /\ UNCHANGED <<functions, hostVars>>

Next ==
    \/ EvalFirstWrapper
    \/ EvalSecondWrapper
    \/ HasIssueExported
    \/ HasIssueFirst
    \/ NormalizeExported
    \/ NormalizeFirst
    \/ FeedBack
    \/ NormalizeAgain

Spec == Init /\ [][Next]_vars

\* The calls whose argument is not a string or is the empty string: the
\* ones that the guard of lines 49 and 70 (592 and 615) answers.
InvalidInputs == {v \in Inputs : v.type # "string" \/ v.val = <<>>}

InitInvalid == Init /\ svgString \in InvalidInputs

SpecInvalid == InitInvalid /\ [][Next]_vars

\* ------------------------------------------------------------------------
\* The host's events and calls
\* ------------------------------------------------------------------------

\* The host states the file can be evaluated in.
InitHost ==
    /\ functions = Functions
    /\ loaded = 0
    /\ exposed = "none"
    /\ svgString = Str(<<>>)
    /\ op = "none"
    /\ callee = 0
    /\ via = "none"
    /\ test = NoTest
    /\ run = NoCall
    /\ fed = FALSE
    /\ prev = NoCall
    /\ host \in {NoHost("none", "undefined", "undefined")} \cup
                {NoHost(r, e, p) : r \in {"loading", "complete"},
                                   e \in {"undefined", "noUtils", "Utils"},
                                   p \in {"undefined", "loaded"}}
    /\ instance = [created |-> FALSE, addSVG |-> <<>>]
    /\ request = NoRequest
    /\ last = NoLast
    /\ calls = 0

\* The callbacks registered for DOMContentLoaded run in their order.
RECURSIVE Dispatch(_, _, _)
Dispatch(h, listeners, k) ==
    IF k > Len(listeners) THEN h
    ELSE Dispatch(autoInit(h, listeners[k]), listeners, k + 1)

\* The document has been parsed (lines 530 and 1037).
DOMContentLoaded ==
    /\ loaded = 2
    /\ host.readyState = "loading"
    /\ host' = Dispatch([host EXCEPT !.readyState = "interactive",
                                    !.listeners = <<>>],
                        host.listeners, 1)
    /\ UNCHANGED <<callVars, instance, request, last, calls>>

\* Another script defines the global Entry, with or without Entry.Utils.
EntryLoads ==
    /\ loaded = 2
    /\ HasWindow(host)
    /\ host.Entry = "undefined"
    /\ \E e \in {"noUtils", "Utils"} : host' = [host EXCEPT !.Entry = e]
    /\ UNCHANGED <<callVars, instance, request, last, calls>>

\* Another script defines window.EntryPaint.default.
EntryPaintLoads ==
    /\ loaded = 2
    /\ HasWindow(host)
    /\ host.EntryPaint = "undefined"
    /\ host' = [host EXCEPT !.EntryPaint = "loaded"]
    /\ UNCHANGED <<callVars, instance, request, last, calls>>

\* A tick of an interval of 500 ms: lines 490-498 for the first factory,
\* lines 1000-1005 for the second.
EntryTick(h, i) ==
    IF h.timers[i].of = 1
    THEN IF h.Entry # "undefined" /\ ~h.timers[i].entryIntegrated
         THEN IF integrateWithEntry(h, 1).ret = "true"
              THEN [integrateWithEntry(h, 1).host EXCEPT
                       !.timers[i].entryIntegrated = TRUE,
                       !.timers[i].active = FALSE,
                       !.timers[i].sawEntry = TRUE]
              ELSE [integrateWithEntry(h, 1).host EXCEPT
                       !.timers[i].sawEntry = TRUE,
                       !.timers[i].ticks = @ + 1]
         ELSE [h EXCEPT !.timers[i].sawEntry = (h.Entry # "undefined"),
                        !.timers[i].ticks = @ + 1]
    ELSE IF h.Entry = "Utils" /\ h.Utils["normalizeSvgNamespace"] = 0
         THEN [integrateWithEntry(h, 2).host EXCEPT
                  !.timers[i].active = FALSE,
                  !.timers[i].sawEntry = TRUE]
         ELSE [h EXCEPT !.timers[i].sawEntry = (h.Entry # "undefined"),
                        !.timers[i].ticks = @ + 1]

\* Lines 421-452 (932-963): a tick of the interval of 100 ms.
PaintTick(h, i) ==
    IF h.EntryPaint = "loaded"
    THEN [h EXCEPT !.create = Append(@, h.timers[i].of),
                   !.timers[i].active = FALSE]
    ELSE [h EXCEPT !.timers[i].ticks = @ + 1]

\* Intervals of the same delay fire in the order they were started in:
\* timer i is due when no interval of its kind started before it is behind.
Due(h, i) ==
    /\ h.timers[i].active
    /\ h.timers[i].ticks < MaxTicks
    /\ \A j \in 1..(i - 1) :
          (h.timers[j].active /\ h.timers[j].kind = h.timers[i].kind)
          => h.timers[j].ticks > h.timers[i].ticks

\* An interval that was not cleared fires.
Tick ==
    /\ loaded = 2
    /\ \E i \in 1..Len(host.timers) :
          /\ Due(host, i)
          /\ host' = IF host.timers[i].kind = "paint" THEN PaintTick(host, i)
                     ELSE EntryTick(host, i)
    /\ UNCHANGED <<callVars, instance, request, last, calls>>

\* Lines 455-457 and 501-503 (966-968 and 1008-1010): the timeout of an
\* interval clears it.
Timeout ==
    /\ loaded = 2
    /\ \E i \in 1..Len(host.timers) :
          /\ host.timers[i].active
          /\ host.timers[i].ticks = MaxTicks
          /\ host' = [host EXCEPT !.timers[i].active = FALSE,
                                  !.timers[i].expired = TRUE]
    /\ UNCHANGED <<callVars, instance, request, last, calls>>

\* A call of the host's own code on the exported object.
Call(name, v, arg, outcome) ==
    [op |-> name, of |-> v, arg |-> arg, outcome |-> outcome]

CanCall ==
    /\ loaded = 2
    /\ calls < MaxCalls
    /\ calls' = calls + 1

\* SvgNamespaceNormalizer.autoInit() on the exported object.
CallAutoInit ==
    /\ CanCall /\ HasWindow(host)
    /\ host' = autoInit(host, ExposedDefinition)
    /\ last' = Call("autoInit", ExposedDefinition, NoValue,
                    Outcome("returned", <<>>, NoValue, 0))
    /\ UNCHANGED <<callVars, instance, request>>

\* SvgNamespaceNormalizer.disable() on the exported object.
CallDisable ==
    /\ CanCall /\ HasWindow(host)
    /\ host' = disable(host, ExposedDefinition)
    /\ last' = Call("disable", ExposedDefinition, NoValue,
                    Outcome("returned", <<>>, NoValue, 0))
    /\ UNCHANGED <<callVars, instance, request>>

\* SvgNamespaceNormalizer.patchFetch() on the exported object.
CallPatchFetch ==
    /\ CanCall /\ HasWindow(host)
    /\ host' = patchFetch(host, ExposedDefinition)
    /\ last' = Call("patchFetch", ExposedDefinition, NoValue,
                    Outcome("returned", <<>>, NoValue, 0))
    /\ UNCHANGED <<callVars, instance, request>>

\* SvgNamespaceNormalizer.patchXHR() on the exported object.
CallPatchXHR ==
    /\ CanCall /\ HasWindow(host)
    /\ host' = patchXHR(host, ExposedDefinition)
    /\ last' = Call("patchXHR", ExposedDefinition, NoValue,
                    Outcome("returned", <<>>, NoValue, 0))
    /\ UNCHANGED <<callVars, instance, request>>

\* SvgNamespaceNormalizer.integrateWithEntry() on the exported object.
\* succeeded: an earlier integrateWithEntry of the factory succeeded,
\* Entry.Utils holds its functions.
CallIntegrateWithEntry ==
    /\ CanCall /\ HasWindow(host)
    /\ host' = integrateWithEntry(host, ExposedDefinition).host
    /\ last' = Call("integrateWithEntry", ExposedDefinition,
                    [succeeded |->
                        /\ host.Entry = "Utils"
                        /\ host.Utils["normalizeSvgNamespace"] =
                              ExposedDefinition,
                     assigned |->
                        integrateWithEntry(host, ExposedDefinition).assigned],
                    Outcome("returned", <<>>,
                            integrateWithEntry(host, ExposedDefinition).ret,
                            0))
    /\ UNCHANGED <<callVars, instance, request>>

CanLoad ==
    /\ loaded = 2
    /\ calls < MaxLoads
    /\ calls' = calls + 1

\* The factories whose function a caller reaches under the name of the
\* exported object or under the name of Entry.Utils.
Callees(name) ==
    {ExposedDefinition} \cup
    (IF host.Entry = "Utils" THEN {host.Utils[name]} \ {0} ELSE {})

\* fetchAndNormalize(url).
CallFetchAndNormalize ==
    /\ CanLoad
    /\ \E v \in Callees("fetchAndNormalizeSvg"), req \in Requests :
          last' = Call("fetchAndNormalize", v, req,
                       fetchAndNormalize(host, v, req))
    /\ UNCHANGED <<callVars, host, instance, request>>

\* toDataUrl(svgString).
CallToDataUrl ==
    /\ CanLoad
    /\ \E v \in Callees("svgToNormalizedDataUrl"), d \in HostDocuments :
          last' = Call("toDataUrl", v, Str(d), toDataUrl(v, Str(d)))
    /\ UNCHANGED <<callVars, host, instance, request>>

\* toBlobUrl(svgString).
CallToBlobUrl ==
    /\ CanLoad /\ HasWindow(host)
    /\ \E v \in Callees("svgToNormalizedBlobUrl"), d \in HostDocuments :
          last' = Call("toBlobUrl", v, Str(d), toBlobUrl(v, Str(d)))
    /\ UNCHANGED <<callVars, host, instance, request>>

\* normalizeElement(svgElement); the parser's verdict is the browser's.
CallNormalizeElement ==
    /\ CanLoad /\ HasWindow(host)
    /\ \E v \in Callees("normalizeSvgElement"),
          e \in Elements,
          parsererror \in BOOLEAN :
          last' = Call("normalizeElement", v,
                       [svgElement |-> e, parsererror |-> parsererror],
                       normalizeElement(v, e, parsererror))
    /\ UNCHANGED <<callVars, host, instance, request>>

\* loadAndNormalize(url, callback): the request is sent.
CallLoadAndNormalize ==
    /\ CanLoad /\ HasWindow(host)
    /\ request.state = "unsent"
    /\ \E v \in Callees("loadAndNormalizeSvg"), url \in Urls,
          throws \in BOOLEAN :
          request' = loadAndNormalize(host, v, url, throws)
    /\ UNCHANGED <<callVars, host, instance, last>>

\* The request reaches readyState 4.
ReadyStateChange ==
    /\ request.state = "sent"
    /\ \E a \in XhrAnswers : request' = onreadystatechange(request, a)
    /\ UNCHANGED <<callVars, host, instance, last, calls>>

\* The error event that follows readyState 4 when the network failed.
ErrorEvent ==
    /\ request.state = "failing"
    /\ request' = onerror(request)
    /\ UNCHANGED <<callVars, host, instance, last, calls>>

\* EntryPaint.default.create(options) (lines 425-447, 936-958): every
\* wrapper on create wraps the addSVG of the new instance.
Create ==
    /\ loaded = 2
    /\ host.EntryPaint = "loaded"
    /\ ~instance.created
    /\ instance' = [created |-> TRUE, addSVG |-> host.create]
    /\ UNCHANGED <<callVars, host, request, last, calls>>

\* instance.addSVG(svgUrl).
CallAddSVG ==
    /\ CanLoad
    /\ instance.created
    /\ \E req \in Requests :
          last' = Call("addSVG", 0, req,
                       addSVG(host, instance.addSVG, Len(instance.addSVG),
                              req, 0))
    /\ UNCHANGED <<callVars, host, instance, request>>

\* Evaluation, the environment's events and the calls that patch.
NextHost ==
    \/ EvalFirstWrapper
    \/ EvalSecondWrapper
    \/ DOMContentLoaded
    \/ EntryLoads
    \/ EntryPaintLoads
    \/ Tick
    \/ Timeout
    \/ CallAutoInit
    \/ CallDisable
    \/ CallPatchFetch
    \/ CallPatchXHR
    \/ CallIntegrateWithEntry

SpecHost == InitHost /\ [][NextHost]_vars

\* Evaluation, the environment's events and the calls that load or convert.
NextLoaders ==
    \/ EvalFirstWrapper
    \/ EvalSecondWrapper
    \/ DOMContentLoaded
    \/ EntryLoads
    \/ EntryPaintLoads
    \/ Tick
    \/ Timeout
    \/ CallFetchAndNormalize
    \/ CallToDataUrl
    \/ CallToBlobUrl
    \/ CallNormalizeElement
    \/ CallLoadAndNormalize
    \/ ReadyStateChange
    \/ ErrorEvent
    \/ Create
    \/ CallAddSVG

SpecLoaders == InitHost /\ [][NextLoaders]_vars

\* ------------------------------------------------------------------------
\* Properties of hasIssue and normalize
\* ------------------------------------------------------------------------

\* How often needle occurs in t.
Count(t, needle) ==
    Cardinality({i \in 1..Len(t) :
                    /\ i + Len(needle) - 1 <= Len(t)
                    /\ SubSeq(t, i, i + Len(needle) - 1) = needle})

\* A call of the first definition's normalize on an input string.
FirstNormalized ==
    /\ op = "normalize"
    /\ callee = 1
    /\ ~fed
    /\ svgString.type = "string"

\* The input text of the spans the protecting replace() calls recognised,
\* left to right (a span within a span is part of the outer one's text).
ProtectedSpans(r) == SelectSeq(r.org, LAMBDA o : Len(o) > 1)

\* spans[n], spans[n+1], ... occur in t from index pos on, in this order
\* and without overlap.
RECURSIVE OccurInOrder(_, _, _, _)
OccurInOrder(spans, t, n, pos) ==
    IF n > Len(spans) THEN TRUE
    ELSE \E i \in pos..Len(t) :
            /\ i + Len(spans[n]) - 1 <= Len(t)
            /\ SubSeq(t, i, i + Len(spans[n]) - 1) = spans[n]
            /\ OccurInOrder(spans, t, n + 1, i + Len(spans[n]))

\* C1: every span the protector of the first definition recognises (a
\* quoted base64 image URL, a url(#...) function, an href attribute whose
\* value starts with '#') is in the output of normalize unchanged and in
\* the same order, whether the rewrite ran or not.
C1_ProtectedSpansSurvive ==
    FirstNormalized =>
        OccurInOrder(ProtectedSpans(run), run.out.val, 1, 1)

\* C2: if hasIssue(s) is false then normalize(s) returns exactly s (first
\* definition).
C2_NoIssueNoChange ==
    (FirstNormalized /\ ~hasIssue1(svgString).ret) => run.out = svgString

\* C3: normalize is idempotent: normalize applied to its own output
\* returns that output (first definition).
C3_Idempotent ==
    (op = "normalize" /\ callee = 1 /\ fed) => run.out = svgString

\* The input declares xmlns:ns<n> with the XLink URI.
DeclaresXLink(t, n) == Test(xmlnsPattern(n), t)

\* The attribute ns<n>:href, after white space, with the quoted base64
\* image URL as its value.
Base64Href(n) == <<" ", "ns" \o n, ":", "href", "=">> \o Base64Url

\* C4: when xmlns:ns<N> is declared with the XLink URI and ns<N>:href
\* carries a quoted base64 image URL D, the output of normalize holds
\* xlink:href= followed by D, holds
\* xmlns:xlink="http://www.w3.org/1999/xlink", and holds no ns<N>: token.
C4_Base64HrefRewritten ==
    \A n \in DigitGroups :
        (/\ FirstNormalized
         /\ DeclaresXLink(svgString.val, n)
         /\ Contains(svgString.val, Base64Href(n)))
        => /\ Contains(run.out.val,
                       <<"xlink", ":", "href", "=">> \o Base64Url)
           /\ Contains(run.out.val,
                       <<"xmlns:", "xlink", "=", DQ, XLinkUri, DQ>>)
           /\ ~Contains(run.out.val, <<"ns" \o n, ":">>)

\* An attribute with the prefix ns<n>: ns<n>:name=
PrefixedAttr(n) ==
    RegExp(<< <<Lit("ns" \o n), Lit(":"), Plus("[a-zA-Z0-9-]"),
                Star("\\s"), Lit("=")>> >>, {"i"})

\* C5: when normalize does not take the early exit, no attribute of the
\* output uses a numeric prefix that was bound to the XLink URI, whatever
\* the shape of its value.
C5_BoundPrefixesRewritten ==
    (FirstNormalized /\ run.path = "rewrite") =>
        \A j \in 1..Len(run.xlinkNsPrefixes) :
            ~Test(PrefixedAttr(run.xlinkNsPrefixes[j]), run.out.val)

\* The declaration of xmlns:ns<m> with a URI other than the XLink one.
OtherDeclaration(m) == <<"xmlns:", "ns" \o m, "=", DQ, SvgUri, DQ>>

\* C6: if the input declares xmlns:ns<M> with a URI other than the XLink
\* URI, normalize leaves that declaration and every ns<M>: in the text:
\* the output holds as many of each as the input.
C6_OtherPrefixesKept ==
    \A m \in DigitGroups :
        (/\ op = "normalize"
         /\ ~fed
         /\ svgString.type = "string"
         /\ Contains(svgString.val, OtherDeclaration(m)))
        => /\ Count(run.out.val, OtherDeclaration(m))
                = Count(svgString.val, OtherDeclaration(m))
           /\ Count(run.out.val, <<"ns" \o m, ":">>)
                = Count(svgString.val, <<"ns" \o m, ":">>)

\* The first <svg ...> tag of t.
FirstSvgTag(t) ==
    SubSeq(t, Matches(SvgTagPattern, t)[1].start,
           Matches(SvgTagPattern, t)[1].stop - 1)

\* t ends with tail.
EndsWith(t, tail) ==
    /\ Len(tail) <= Len(t)
    /\ SubSeq(t, Len(t) - Len(tail) + 1, Len(t)) = tail

\* C7: for an input that holds xlink:href, no xmlns:xlink and an
\* <svg ...> tag, the output's first <svg tag ends with
\* xmlns:xlink="http://www.w3.org/1999/xlink" before its '>', and the
\* output holds that declaration once.
C7_DeclarationInjected ==
    (/\ FirstNormalized
     /\ Contains(svgString.val, <<"xlink", ":", "href">>)
     /\ ~Contains(svgString.val, <<"xmlns:", "xlink">>)
     /\ Test(SvgTagPattern, svgString.val))
    => /\ Test(SvgTagPattern, run.out.val)
       /\ EndsWith(FirstSvgTag(run.out.val),
                   <<"xmlns:", "xlink", "=", DQ, XLinkUri, DQ, ">">>)
       /\ Count(run.out.val, <<"xmlns:", "xlink">>) = 1

\* C8: when normalize does not take the early exit, its output holds at
\* most one xmlns:xlink declaration.
C8_OneXlinkDeclaration ==
    (FirstNormalized /\ run.path = "rewrite") =>
        Count(run.out.val, <<"xmlns:", "xlink">>) <= 1

\* C9: the hasIssue the loaded file exposes returns true exactly for the
\* strings that hold a declaration xmlns:ns<digits>= whose quoted value is
\* the XLink URI, compared without regard to case.
C9_ExposedHasIssue ==
    (op = "hasIssue" /\ via = "export") =>
        /\ ~test.threw
        /\ test.ret = (/\ svgString.type = "string"
                       /\ Test(xlinkNsPattern, svgString.val))

\* C10: for every value that is not a string and for the empty string,
\* hasIssue returns false and normalize returns its argument unchanged,
\* neither throws, and normalize runs no stage.
C10_InvalidInputPassesThrough ==
    (svgString.type # "string" \/ svgString.val = <<>>) =>
        /\ op = "hasIssue" => test = [ret |-> FALSE, threw |-> FALSE]
        /\ op = "normalize" => /\ run.out = svgString
                               /\ ~run.threw
                               /\ run.stages = <<>>

\* normalize was called with the number 42 and returned at its guard.
C10_NumberPassedThrough ==
    /\ op = "normalize"
    /\ svgString = [type |-> "number", val |-> <<"42">>]
    /\ run.path = "invalid"
    /\ run.out = svgString

\* The placeholder tokens a call allocated.
Allocated(r) ==
    {Placeholder(placeholderPrefix, i - 1) :
        i \in 1..Len(r.base64Placeholders)}
    \cup {Placeholder(idRefPlaceholderPrefix, i - 1) :
             i \in 1..Len(r.idRefPlaceholders)}

\* The lexemes of a text.
Lexemes(t) == {t[k] : k \in 1..Len(t)}

\* The lexemes of the spans a call recorded.
Recorded(r) ==
    UNION ({Lexemes(r.base64Placeholders[i]) :
               i \in 1..Len(r.base64Placeholders)}
           \cup {Lexemes(r.idRefPlaceholders[i]) :
                    i \in 1..Len(r.idRefPlaceholders)})

\* C15: no placeholder token the protector allocates occurs in the input
\* or inside a span it recorded.
C15_PlaceholdersNeverCollide ==
    FirstNormalized =>
        /\ Allocated(run) \cap Lexemes(svgString.val) = {}
        /\ Allocated(run) \cap Recorded(run) = {}

\* The orders in which the placeholders of a pool of n can be restored:
\* all of them for up to three placeholders, ascending and descending
\* for more.
Orders(n) ==
    IF n <= 3
    THEN {o \in [1..n -> 1..n] : \A i, j \in 1..n : o[i] = o[j] => i = j}
    ELSE {[i \in 1..n |-> i], [i \in 1..n |-> n + 1 - i]}

\* split(placeholder).join(text) for the placeholders of a pool in the
\* order given.
RECURSIVE RestoreInOrder(_, _, _, _, _)
RestoreInOrder(t, prefix, list, order, k) ==
    IF k > Len(list) THEN t
    ELSE RestoreInOrder(
             SplitJoin(t, Placeholder(prefix, order[k] - 1), list[order[k]]),
             prefix, list, order, k + 1)

\* Every other way of restoring gives the output of the call: either pool
\* first, the placeholders of each pool in any of Orders.
AnyOrderSameOutput(r) ==
    \A ob \in Orders(Len(r.base64Placeholders)),
       oi \in Orders(Len(r.idRefPlaceholders)) :
        /\ RestoreInOrder(
               RestoreInOrder(r.unrestored, idRefPlaceholderPrefix,
                              r.idRefPlaceholders, oi, 1),
               placeholderPrefix, r.base64Placeholders, ob, 1) = r.out.val
        /\ RestoreInOrder(
               RestoreInOrder(r.unrestored, placeholderPrefix,
                              r.base64Placeholders, ob, 1),
               idRefPlaceholderPrefix, r.idRefPlaceholders, oi, 1) = r.out.val

\* C16 as stated: restoring in any other order gives the same output as
\* the order of lines 163-172, for every input.
C16_AnyRestoreOrder == FirstNormalized => AnyOrderSameOutput(run)

\* C16: restoring in any other order gives the same output as the order
\* of lines 163-172 when no recorded span holds a placeholder token.
C16_OrderFreeWithoutNesting ==
    (FirstNormalized /\ Allocated(run) \cap Recorded(run) = {}) =>
        AnyOrderSameOutput(run)

\* A call that recorded a base64 span and two fragment spans, none of
\* them holding a placeholder.
C16_ThreeFlatSpans ==
    /\ FirstNormalized
    /\ Allocated(run) \cap Recorded(run) = {}
    /\ Len(run.base64Placeholders) = 1
    /\ Len(run.idRefPlaceholders) = 2

\* ------------------------------------------------------------------------
\* Properties of the patches, the polling and the loaders
\* ------------------------------------------------------------------------

C14_RepeatedInitIsNoOp ==
    [][/\ (CallAutoInit /\ host.isInitialized[ExposedDefinition])
          => host' = host
       /\ (CallPatchFetch /\ host.originalFetch[ExposedDefinition] # "null")
          => host' = host
       /\ (CallIntegrateWithEntry /\ last'.arg.succeeded)
          => /\ last'.outcome.value = "true"
             /\ ~last'.arg.assigned]_vars

\* How many wrappers of factory v lie on the fetch function f.
RECURSIVE FetchLayers(_, _, _, _)
FetchLayers(h, f, v, depth) ==
    IF f \in {"native", "null"} \/ depth = 0 THEN 0
    ELSE IF f = Wrapper(v)
    THEN 1 + FetchLayers(h, h.originalFetch[v], v, depth - 1)
    ELSE FetchLayers(h, h.originalFetch[3 - v], v, depth - 1)

\* How many wrappers of factory v lie on XMLHttpRequest.prototype.open and
\* send.
XHRLayers(h, v) ==
    Cardinality({i \in 1..Len(h.XMLHttpRequest) : h.XMLHttpRequest[i] = v})

\* C18: whatever autoInit, disable and patchXHR calls were made on the
\* exported object, window.fetch and XMLHttpRequest.prototype.open/send
\* carry at most one layer of its wrapper, and disable leaves window.fetch
\* the function that was there before the object's first patch.
C18_AtMostOneLayer ==
    /\ [](loaded = 2 =>
            /\ FetchLayers(host, host.fetch, ExposedDefinition, 4) <= 1
            /\ XHRLayers(host, ExposedDefinition) <= 1)
    /\ [][(CallDisable /\ host.unpatched[ExposedDefinition] # "none")
          => host'.fetch = host.unpatched[ExposedDefinition]]_vars

\* C17: when Entry was undefined at autoInit and a poll tick of the Entry
\* interval has then run with Entry defined, Entry.Utils exists and holds
\* the normalizer's functions and that interval is cleared; and an interval
\* whose timeout has fired is cleared.
C17_LateEntryIntegrated ==
    \A i \in 1..Len(host.timers) :
        /\ (/\ host.timers[i].kind = "entry"
            /\ host.timers[i].started = "undefined"
            /\ host.timers[i].sawEntry)
           => /\ host.Entry = "Utils"
              /\ host.Utils["normalizeSvgNamespace"] # 0
              /\ ~host.timers[i].active
        /\ host.timers[i].expired => ~host.timers[i].active

\* A call of a loader or converter on a document that ended well.
Converted ==
    /\ last.op \in {"fetchAndNormalize", "toDataUrl", "toBlobUrl",
                    "normalizeElement", "addSVG"}
    /\ last.outcome.kind \in {"returned", "resolved"}
    /\ last.op = "normalizeElement" => last.arg.svgElement.type = "element"
    /\ last.op = "addSVG"
       => (~last.arg.answer.failed /\ last.arg.answer.status \in 200..299)

\* C11: each loader or converter call that handles a document
\* (fetchAndNormalize, toDataUrl, toBlobUrl, normalizeElement, the patched
\* addSVG, loadAndNormalize with status 200) runs normalize exactly once on
\* it, also when the fetch and XMLHttpRequest patches are installed.
C11_NormalizedExactlyOnce ==
    /\ (Converted /\ (last.op = "addSVG" => instance.addSVG # <<>>))
       => last.outcome.normalized = 1
    /\ (request.state = "done" /\ request.status = 200)
       => request.normalized = 1

\* What fetchAndNormalize gave for a response with a non-success status
\* and for a request that failed.
FetchFailureExplicit ==
    last.op = "fetchAndNormalize" =>
        /\ (~last.arg.answer.failed /\ last.arg.answer.status \notin 200..299)
           => /\ last.outcome.kind = "rejected"
              /\ last.outcome.message =
                    <<"Failed to fetch SVG: ",
                      ToString(last.arg.answer.status)>>
              /\ last.outcome.value = NoValue
              /\ last.outcome.normalized = last.outcome.wrappers
        /\ last.arg.answer.failed
           => /\ last.outcome.kind = "rejected"
              /\ last.outcome.value = NoValue
              /\ last.outcome.normalized = 0

\* What loadAndNormalize gave for a non-success status and for a request
\* that failed.
LoadFailureExplicit ==
    (request.state \in {"failing", "done"} /\ request.status \notin 200..299) =>
        /\ Len(request.callbacks) >= 1
        /\ request.callbacks[1] =
              [error |-> <<"Failed to load SVG: ",
                           ToString(request.status)>>,
               result |-> NoValue]
        /\ \A i \in 1..Len(request.callbacks) :
              /\ request.callbacks[i].error # <<>>
              /\ request.callbacks[i].result = NoValue
        /\ request.normalized = 0

\* C12 as stated: in fetchAndNormalize and loadAndNormalize a non-success
\* status gives an explicit failure whose message holds the status code, a
\* transport failure gives a failure, and in neither case normalize runs or
\* a normalized result is delivered.
C12_FailureWithoutNormalize ==
    /\ FetchFailureExplicit
    /\ LoadFailureExplicit
    /\ (last.op = "fetchAndNormalize" /\ last.outcome.kind = "rejected")
       => last.outcome.normalized = 0

\* C12: in fetchAndNormalize and loadAndNormalize a non-success status
\* gives an explicit failure whose message holds the status code, a
\* transport failure gives a failure, and in neither case does the helper
\* run normalize or deliver a normalized result; the only normalize calls
\* are those of installed fetch wrappers on the body of the response.
C12_FailureExplicit ==
    /\ FetchFailureExplicit
    /\ LoadFailureExplicit

C12_WrapperNormalizedFailedResponse ==
    /\ last.op = "fetchAndNormalize"
    /\ last.arg.answer.status = 404
    /\ last.outcome.kind = "rejected"
    /\ last.outcome.wrappers > 0

\* C13: normalizeElement hands a falsy argument back as it is, hands back
\* the element it was given when the parsed document holds a parsererror,
\* hands back the parsed document's element otherwise, and raises in none
\* of these cases.
C13_ParseErrorFallsBack ==
    (/\ last.op = "normalizeElement"
     /\ (Falsy(last.arg.svgElement) \/ last.arg.svgElement.type = "element"))
    => /\ last.outcome.kind = "returned"
       /\ Falsy(last.arg.svgElement)
          => last.outcome.value = last.arg.svgElement
       /\ (~Falsy(last.arg.svgElement) /\ last.arg.parsererror)
          => last.outcome.value = last.arg.svgElement
       /\ (~Falsy(last.arg.svgElement) /\ ~last.arg.parsererror)
          => last.outcome.value =
                [type |-> "element",
                 val |-> normalize(last.of,
                                   Str(last.arg.svgElement.val)).val,
                 node |-> "parsed"]

C13_OriginalAfterParseError ==
    /\ last.op = "normalizeElement"
    /\ last.arg.svgElement.type = "element"
    /\ last.arg.parsererror
    /\ normalize(last.of, Str(last.arg.svgElement.val)).val
          # last.arg.svgElement.val
    /\ last.outcome.value = last.arg.svgElement

\* C19: loadAndNormalize calls its callback exactly once: with (null,
\* normalized) on status 200, with (Error, null) on another status and on a
\* network error, also when the callback throws.
C19_CallbackExactlyOnce ==
    request.state = "done" =>
        /\ Len(request.callbacks) = 1
        /\ request.status = 200
           => /\ request.callbacks[1].error = <<>>
              /\ request.callbacks[1].result.type = "string"
        /\ request.status # 200
           => /\ request.callbacks[1].error # <<>>
              /\ request.callbacks[1].result = NoValue

====
